---- MODULE Spec2Model ----
(***************************************************************************)
(* A model of the task dispatcher of app/main.py (receive_request, the     *)
(* idempotency store load_processed / save_processed) and of the           *)
(* notification client of app/notify.py (notify_evaluation_server).        *)
(*                                                                         *)
(* The Generator's call, the Repository Host's calls and the HTTP POST of  *)
(* the notification are calls to the outside: each one either returns or   *)
(* raises, and the model draws that outcome nondeterministically.          *)
(***************************************************************************)
EXTENDS Integers, Sequences, FiniteSets, TLC

\* ------------------------------------------------------------------ bounds
\* Requests received in one behaviour.
MaxRequests == 2
\* The longest brief, and the longest model response, in tokens.
MaxBriefLen == 3

\* ------------------------------------------------------- program constants
USER_SECRET == "S"
USERNAME == "user"
\* range(5) of notify_evaluation_server
MaxAttempts == 5
\* delay = 1
InitialDelay == 1

\* ------------------------------------------------------------------ inputs
Secrets == {USER_SECRET, "wrong"}
Emails == {"a@x.com"}
Tasks == {"demo1"}
Nonces == {"n1"}
\* JSON values of the "round" field; a request may also carry no such field.
Rounds == {1, 2, 3}
\* Head commit identifiers the Repository Host may report.
Shas == {"sha1", "sha2"}

EmptyMap == [x \in {} |-> x]

\* The JSON bodies: with and without the optional "round" field.
Requests ==
    {[secret |-> s, email |-> e, task |-> t, nonce |-> n] :
        s \in Secrets, e \in Emails, t \in Tasks, n \in Nonces}
    \cup
    {[secret |-> s, email |-> e, task |-> t, nonce |-> n, round |-> r] :
        s \in Secrets, e \in Emails, t \in Tasks, n \in Nonces, r \in Rounds}

\* dict.get(field, default)
Get(d, field, default) == IF field \in DOMAIN d THEN d[field] ELSE default

\* key = f"{email}::{task}::round{round}::nonce{nonce}"
Key(d) ==
    d["email"] \o "::" \o d["task"] \o "::round" \o ToString(Get(d, "round", 1))
        \o "::nonce" \o d["nonce"]

Keys == {Key(d) : d \in Requests}

\* repo_url = f"https://github.com/{USERNAME}/{task_id}"
RepoUrl(task_id) == "https://github.com/" \o USERNAME \o "/" \o task_id
\* pages_url = f"https://{USERNAME}.github.io/{task_id}/"
PagesUrl(task_id) == "https://" \o USERNAME \o ".github.io/" \o task_id \o "/"

\* ------------------------------------------------------ notification client
\* What one POST attempt can end in: a 200 response, another status, or an
\* exception of requests.post (transport error, timeout).
Outcomes == {"200", "non200", "exception"}
AttemptRuns == [1..MaxAttempts -> Outcomes]

\* The return value of notify_evaluation_server when attempt i (1-based) ends in
\* outs[i]: True at the first 200 response, False once range(5) is exhausted.
RECURSIVE NotifyFrom(_, _)
NotifyFrom(outs, i) ==
    IF i > MaxAttempts THEN FALSE
    ELSE IF outs[i] = "200" THEN TRUE
    ELSE NotifyFrom(outs, i + 1)

notify_evaluation_server(outs) == NotifyFrom(outs, 1)

\* The values a call of notify_evaluation_server can return.
NotifyReturns == {notify_evaluation_server(outs) : outs \in AttemptRuns}

\* ------------------------------------------------------------------- state
VARIABLES
    file,       \* the persisted state file /tmp/processed_requests.json
    run,        \* the handler's locals and position, per worker
    nreq,       \* requests received so far
    published,  \* per key: the runs that committed at least one file
    lastEnd,    \* per key: how the latest non-duplicate run for it ended
    notified,   \* per key: the payload sent by the run that last stored its outcome
    \* one call of notify_evaluation_server, by step
    npc,        \* its position
    attempt,    \* the loop variable of range(5)
    delay,      \* the seconds the next sleep waits
    sleeps,     \* the time.sleep calls made so far, in order
    outcomes,   \* how each POST attempt made so far ended, in order
    ret,        \* the value returned
    \* one call of generate_app_code
    gbrief,     \* the brief it was given
    gfailed,    \* whether the live model call raised
    gfiles,     \* the "files" of the artifact set it returned
    \* the keys receive_request builds for two requests
    kp

hvars == <<file, run, nreq, published, lastEnd, notified>>
nvars == <<npc, attempt, delay, sleeps, outcomes, ret>>
pvars == <<gbrief, gfailed, gfiles, kp>>
vars == <<file, run, nreq, published, lastEnd, notified, npc, attempt, delay, sleeps, outcomes, ret,
          gbrief, gfailed, gfiles, kp>>

\* The workers that handle requests one after the other.
Workers == {"w1"}

\* run[w] holds the locals of receive_request (data, round_num, task_id, key,
\* processed, prev_readme, files, repo_url, pages_url, commit_sha), its position
\* pc, what it returned (result, message) and a record of what it did: calls (the
\* calls it made, in order), failed (those that raised, enable_pages apart), sent (the payloads it
\* handed to notify_evaluation_server), notify_ret (what that returned), gen_prev
\* (the prev_readme it handed to the Generator), did_commit (a commit landed) and
\* file0 (the state file as it was when the request arrived).

\* The file's state: valid JSON holding a mapping, or cut short by a failed write.
ValidFile(m) == [valid |-> TRUE, content |-> m]
CorruptFile == [valid |-> FALSE, content |-> EmptyMap]

\* load_processed(): the mapping, or {} when the file is absent or not JSON.
load_processed(f) == IF f.valid THEN f.content ELSE EmptyMap

FreshRun ==
    [pc |-> "idle", data |-> EmptyMap, round_num |-> 0, task_id |-> "",
     key |-> "", processed |-> EmptyMap, prev_readme |-> "None",
     gen_prev |-> "None", files |-> {}, repo_url |-> "", pages_url |-> "",
     commit_sha |-> "", calls |-> <<>>, failed |-> {}, sent |-> <<>>,
     notify_ret |-> FALSE, did_commit |-> FALSE, result |-> "none",
     message |-> "", file0 |-> ValidFile(EmptyMap)]

\* delay = 1, before the first pass of the loop
NotifyInit ==
    /\ npc = "post"
    /\ attempt = 0
    /\ delay = InitialDelay
    /\ sleeps = <<>>
    /\ outcomes = <<>>
    /\ ret = FALSE

\* No call of generate_app_code made yet, no pair of keys built yet.
PureInit ==
    /\ gbrief = <<>>
    /\ gfailed = FALSE
    /\ gfiles = EmptyMap
    /\ kp = EmptyMap

Init ==
    /\ file = ValidFile(EmptyMap)
    /\ run = [w \in Workers |-> FreshRun]
    /\ nreq = 0
    /\ published = [k \in Keys |-> 0]
    /\ lastEnd = [k \in Keys |-> "none"]
    /\ notified = [k \in Keys |-> <<>>]
    /\ NotifyInit
    /\ PureInit

\* ----------------------------------------------------------------- helpers
Call(r, name) == [r EXCEPT !.calls = Append(@, name)]
Failing(r, name) == [r EXCEPT !.failed = @ \cup {name}]
At(r, pc) == [r EXCEPT !.pc = pc]

\* Mutant of ErrorResult: the exception leaves the handler instead of being
\* turned into the error result.
ErrorResultEscapes(r, msg) ==
    [r EXCEPT !.pc = "raised", !.message = msg]

\* except Exception as e: return {"status": "error", "message": str(e), "task": ...}
ErrorResult(r, msg) ==
    [r EXCEPT !.pc = "done", !.result = "error", !.message = msg]

\* The payload notify_evaluation_server builds from its arguments.
Payload(email, task, round, nonce, repo_url, commit_sha, pages_url) ==
    [email |-> email, task |-> task, round |-> round, nonce |-> nonce,
     repo_url |-> repo_url, commit_sha |-> commit_sha, pages_url |-> pages_url]

Set(w, r) == run' = [run EXCEPT ![w] = r]

\* A run that ends in the error result leaves a mark for its key.
End(w, how) == lastEnd' = [lastEnd EXCEPT ![run[w].key] = how]

\* Mutant of Outcome: the two URLs are stored under each other's name.
OutcomeSwapsUrls(r) ==
    [email |-> r.data["email"], task |-> r.task_id, round |-> r.round_num,
     nonce |-> r.data["nonce"], repo_url |-> r.pages_url,
     commit_sha |-> r.commit_sha, pages_url |-> r.repo_url]

\* The Task Outcome receive_request stores: processed[key] = {...}
Outcome(r) ==
    [email |-> r.data["email"], task |-> r.task_id, round |-> r.round_num,
     nonce |-> r.data["nonce"], repo_url |-> r.repo_url,
     commit_sha |-> r.commit_sha, pages_url |-> r.pages_url]

\* save_processed(data): json.dump(data, open(PROCESSED_PATH, "w"), indent=2).
\* The whole file is replaced by the mapping the run holds.
save_processed(data) == ValidFile(data)

\* ------------------------------------------------- receive_request, by step
\* data = await request.json()
Receive(w, d) ==
    /\ run[w].pc \in {"idle", "done"}
    /\ nreq < MaxRequests
    /\ nreq' = nreq + 1
    /\ Set(w, [FreshRun EXCEPT !.pc = "check_secret", !.data = d, !.file0 = file])
    /\ UNCHANGED <<file, published, lastEnd, notified, nvars, pvars>>

\* Mutant of InvalidSecret: the store is loaded before the secret is looked at.
InvalidSecretAfterLoad(r) ==
    [Call(r, "load_processed") EXCEPT !.pc = "done", !.result = "invalid_secret"]

\* print("Invalid secret received."); return {"error": "Invalid secret"}
InvalidSecret(r) == [r EXCEPT !.pc = "done", !.result = "invalid_secret"]

\* if data.get("secret") != USER_SECRET: return {"error": "Invalid secret"}
CheckSecret(w) ==
    /\ run[w].pc = "check_secret"
    /\ IF Get(run[w].data, "secret", "None") # USER_SECRET
       THEN Set(w, InvalidSecret(run[w]))
       ELSE Set(w, At(run[w], "load"))
    /\ UNCHANGED <<file, nreq, published, lastEnd, notified, nvars, pvars>>

\* processed = load_processed(); key = ...; if key in processed
LoadProcessed(w) ==
    /\ run[w].pc = "load"
    /\ LET processed == load_processed(file)
           key == Key(run[w].data)
           r == [Call(run[w], "load_processed") EXCEPT
                    !.processed = processed, !.key = key]
       IN Set(w, At(r, IF key \in DOMAIN processed THEN "replay" ELSE "decode"))
    /\ UNCHANGED <<file, nreq, published, lastEnd, notified, nvars, pvars>>

\* Mutant of ReplayPayload: the replay reports a commit it did not read back.
ReplayPayloadFresh(prev) ==
    Payload(prev.email, prev.task, prev.round, prev.nonce,
            prev.repo_url, "unknown", prev.pages_url)

\* prev = processed[key]; notify_evaluation_server(url, prev["email"], prev["task"],
\*     prev["round"], prev["nonce"], prev["repo_url"], prev["commit_sha"], prev["pages_url"])
ReplayPayload(prev) ==
    Payload(prev.email, prev.task, prev.round, prev.nonce,
            prev.repo_url, prev.commit_sha, prev.pages_url)

\* The duplicate branch: re-notify with the stored outcome and acknowledge.
\* notify_evaluation_server returns a bool on every path, so the except around
\* it has nothing to catch.
Replay(w) ==
    /\ run[w].pc = "replay"
    /\ \E nr \in NotifyReturns :
        LET p == ReplayPayload(run[w].processed[run[w].key])
            r == Call(run[w], "notify_evaluation_server")
        IN Set(w, [r EXCEPT !.sent = Append(@, p),
                            !.notify_ret = nr,
                            !.pc = "done", !.result = "duplicate"])
    /\ UNCHANGED <<file, nreq, published, lastEnd, notified, nvars, pvars>>

\* round_num = data.get("round", 1); task_id = data["task"];
\* saved_attachments = decode_attachments(attachments)
DecodeAttachments(w) ==
    /\ run[w].pc = "decode"
    /\ LET r == [Call(run[w], "decode_attachments") EXCEPT
                    !.round_num = Get(run[w].data, "round", 1),
                    !.task_id = run[w].data["task"]]
       IN \/ /\ Set(w, At(r, IF r.round_num = 2 THEN "prev_readme" ELSE "generate"))
             /\ UNCHANGED lastEnd
          \/ /\ Set(w, ErrorResult(Failing(r, "decode_attachments"), "decode_attachments"))
             /\ End(w, "decode_attachments")
    /\ UNCHANGED <<file, nreq, published, notified, nvars, pvars>>

\* Mutant of GetPrevReadme: a failed read of the previous README ends the task.
GetPrevReadmeAborts(w) ==
    /\ run[w].pc = "prev_readme"
    /\ LET r1 == Call(run[w], "get_repo")
           r2 == Call(r1, "get_contents:README.md")
       IN \/ /\ Set(w, ErrorResult(Failing(r1, "prev_readme:get_repo"), "get_repo"))
             /\ End(w, "prev_readme")
          \/ /\ Set(w, ErrorResult(Failing(r2, "prev_readme:get_contents"), "get_contents"))
             /\ End(w, "prev_readme")
          \/ /\ Set(w, At([r2 EXCEPT !.prev_readme = "readme"], "generate"))
             /\ UNCHANGED lastEnd
    /\ UNCHANGED <<file, nreq, published, notified, nvars, pvars>>

\* if round_num == 2: try: repo = get_repo(task_id);
\*     prev_readme = repo.get_contents("README.md")... except: print
GetPrevReadme(w) ==
    /\ run[w].pc = "prev_readme"
    /\ LET r1 == Call(run[w], "get_repo")
           r2 == Call(r1, "get_contents:README.md")
       IN \/ Set(w, At(Failing(r1, "prev_readme:get_repo"), "generate"))
          \/ Set(w, At(Failing(r2, "prev_readme:get_contents"), "generate"))
          \/ Set(w, At([r2 EXCEPT !.prev_readme = "readme"], "generate"))
    /\ UNCHANGED <<file, nreq, published, lastEnd, notified, nvars, pvars>>

\* The artifact set generate_app_code returns: files = {"index.html": ..., "README.md": ...}
GeneratedFiles == {"index.html", "README.md"}

\* gen = generate_app_code(..., round_num=round_num, prev_readme=prev_readme)
\* files = gen.get("files", {})
Generate(w) ==
    /\ run[w].pc = "generate"
    /\ LET r == [Call(run[w], "generate_app_code") EXCEPT !.gen_prev = run[w].prev_readme]
       IN \/ /\ Set(w, At([r EXCEPT !.files = GeneratedFiles], "create_repo"))
             /\ UNCHANGED lastEnd
          \/ /\ Set(w, ErrorResult(Failing(r, "generate_app_code"), "generate_app_code"))
             /\ End(w, "generate_app_code")
    /\ UNCHANGED <<file, nreq, published, notified, nvars, pvars>>

\* try: repo = create_repo(task_id, ...) except Exception: (fall back to get_repo)
CreateRepo(w) ==
    /\ run[w].pc = "create_repo"
    /\ LET r == Call(run[w], "create_repo")
       IN \/ Set(w, At(r, "commit_index"))
          \/ \E why \in {"create_repo:exists", "create_repo:other"} :
                Set(w, At(Failing(r, why), "get_repo"))
    /\ UNCHANGED <<file, nreq, published, lastEnd, notified, nvars, pvars>>

\* Mutant of GetRepo: the failed run is recorded in the store under its key.
GetRepoRecordsFailure(w) ==
    /\ run[w].pc = "get_repo"
    /\ LET r == Call(run[w], "get_repo")
       IN \/ /\ Set(w, At(r, "commit_index"))
             /\ UNCHANGED <<lastEnd, file>>
          \/ /\ Set(w, ErrorResult(Failing(r, "get_repo"), "get_repo"))
             /\ End(w, "get_repo")
             /\ file' = save_processed((r.key :> Outcome(r)) @@ r.processed)
    /\ UNCHANGED <<nreq, published, notified, nvars, pvars>>

\* except Exception as e: repo = get_repo(task_id)
GetRepo(w) ==
    /\ run[w].pc = "get_repo"
    /\ LET r == Call(run[w], "get_repo")
       IN \/ /\ Set(w, At(r, "commit_index"))
             /\ UNCHANGED lastEnd
          \/ /\ Set(w, ErrorResult(Failing(r, "get_repo"), "get_repo"))
             /\ End(w, "get_repo")
    /\ UNCHANGED <<file, nreq, published, notified, nvars, pvars>>

\* Mutant of CommitResult: a commit that raises is not caught and ends the task.
CommitResultAborts(r, name, ok, next) ==
    LET c == Call(r, "create_or_update_file:" \o name)
    IN IF ok THEN At([c EXCEPT !.did_commit = TRUE], next)
       ELSE ErrorResult(Failing(c, "create_or_update_file:" \o name), name)

\* One create_or_update_file(repo, name, ...) in its own try/except: the run
\* goes on to `next` whether the commit succeeded (ok) or raised.
CommitResult(r, name, ok, next) ==
    LET c == Call(r, "create_or_update_file:" \o name)
    IN IF ok THEN At([c EXCEPT !.did_commit = TRUE], next)
       ELSE At(Failing(c, "create_or_update_file:" \o name), next)

\* The first commit of a run that lands is the run's publish.
Publish(w, r) ==
    published' = IF r.did_commit /\ ~run[w].did_commit
                 THEN [published EXCEPT ![r.key] = @ + 1]
                 ELSE published

\* if "index.html" in files: try: create_or_update_file(...) except: print
CommitIndex(w) ==
    /\ run[w].pc = "commit_index"
    /\ \E ok \in BOOLEAN :
        LET r == IF "index.html" \in run[w].files
                 THEN CommitResult(run[w], "index.html", ok, "commit_readme")
                 ELSE At(run[w], "commit_readme")
        IN Set(w, r) /\ Publish(w, r)
    /\ UNCHANGED <<file, nreq, lastEnd, notified, nvars, pvars>>

\* if "README.md" in files: try: create_or_update_file(...) except: print
CommitReadme(w) ==
    /\ run[w].pc = "commit_readme"
    /\ \E ok \in BOOLEAN :
        LET r == IF "README.md" \in run[w].files
                 THEN CommitResult(run[w], "README.md", ok, "commit_license")
                 ELSE At(run[w], "commit_license")
        IN Set(w, r) /\ Publish(w, r)
    /\ UNCHANGED <<file, nreq, lastEnd, notified, nvars, pvars>>

\* Mutant of CommitLicense: the run goes from the last commit straight to the
\* head-commit read, without enabling static-page hosting.
CommitLicenseThenHead(w) ==
    /\ run[w].pc = "commit_license"
    /\ \E ok \in BOOLEAN :
        LET r == CommitResult(run[w], "LICENSE", ok, "get_branch")
        IN Set(w, r) /\ Publish(w, r)
    /\ UNCHANGED <<file, nreq, lastEnd, notified, nvars, pvars>>

\* license_content = files["LICENSE"] or generate_mit_license();
\* try: create_or_update_file(repo, "LICENSE", ...) except: print
CommitLicense(w) ==
    /\ run[w].pc = "commit_license"
    /\ \E ok \in BOOLEAN :
        LET r == CommitResult(run[w], "LICENSE", ok, "enable_pages")
        IN Set(w, r) /\ Publish(w, r)
    /\ UNCHANGED <<file, nreq, lastEnd, notified, nvars, pvars>>

\* try: enable_pages(repo, branch="main") except: print
\* Whether the call returned (ok) or raised, the run only prints and goes on;
\* nothing it does later reads which of the two happened.
EnablePages(w) ==
    /\ run[w].pc = "enable_pages"
    /\ \E ok \in BOOLEAN : Set(w, At(Call(run[w], "enable_pages"), "get_branch"))
    /\ UNCHANGED <<file, nreq, published, lastEnd, notified, nvars, pvars>>

\* Mutant of GetBranch: the outcome is stored right after the head commit is
\* read, before the notification.
GetBranchThenSave(w) ==
    /\ run[w].pc = "get_branch"
    /\ LET r == [Call(run[w], "get_branch") EXCEPT
                    !.repo_url = RepoUrl(run[w].task_id),
                    !.pages_url = PagesUrl(run[w].task_id)]
       IN \/ /\ \E sha \in Shas : Set(w, At([r EXCEPT !.commit_sha = sha], "save"))
             /\ UNCHANGED lastEnd
          \/ /\ Set(w, ErrorResult(Failing(r, "get_branch"), "get_branch"))
             /\ End(w, "get_branch")
    /\ UNCHANGED <<file, nreq, published, notified, nvars, pvars>>

\* repo_url = ...; pages_url = ...; commit_sha = repo.get_branch("main").commit.sha
GetBranch(w) ==
    /\ run[w].pc = "get_branch"
    /\ LET r == [Call(run[w], "get_branch") EXCEPT
                    !.repo_url = RepoUrl(run[w].task_id),
                    !.pages_url = PagesUrl(run[w].task_id)]
       IN \/ /\ \E sha \in Shas : Set(w, At([r EXCEPT !.commit_sha = sha], "notify"))
             /\ UNCHANGED lastEnd
          \/ /\ Set(w, ErrorResult(Failing(r, "get_branch"), "get_branch"))
             /\ End(w, "get_branch")
    /\ UNCHANGED <<file, nreq, published, notified, nvars, pvars>>

\* Mutant of Notify: a notification that was not delivered ends the task.
NotifyAborts(w) ==
    /\ run[w].pc = "notify"
    /\ \E nr \in NotifyReturns :
        LET d == run[w].data
            p == Payload(d["email"], run[w].task_id, run[w].round_num, d["nonce"],
                         run[w].repo_url, run[w].commit_sha, run[w].pages_url)
            r == [Call(run[w], "notify_evaluation_server") EXCEPT
                    !.sent = Append(@, p), !.notify_ret = nr]
        IN IF nr THEN Set(w, At(r, "save")) /\ UNCHANGED lastEnd
           ELSE Set(w, ErrorResult(r, "notify")) /\ End(w, "notify")
    /\ UNCHANGED <<file, nreq, published, notified, nvars, pvars>>

\* try: notify_evaluation_server(evaluation_url, email, task_id, round_num, nonce,
\*          repo_url, commit_sha, pages_url) except: print
Notify(w) ==
    /\ run[w].pc = "notify"
    /\ \E nr \in NotifyReturns :
        LET d == run[w].data
            p == Payload(d["email"], run[w].task_id, run[w].round_num, d["nonce"],
                         run[w].repo_url, run[w].commit_sha, run[w].pages_url)
            r == Call(run[w], "notify_evaluation_server")
        IN Set(w, [r EXCEPT !.sent = Append(@, p),
                            !.notify_ret = nr,
                            !.pc = "save"])
    /\ UNCHANGED <<file, nreq, published, lastEnd, notified, nvars, pvars>>

\* Mutant of SaveProcessed: the file is replaced by a mapping that holds the
\* run's own outcome only.
SaveProcessedOwnOnly(w) ==
    /\ run[w].pc = "save"
    /\ LET r == [Call(run[w], "save_processed") EXCEPT
                    !.processed = (run[w].key :> Outcome(run[w]))]
       IN \/ /\ file' = save_processed(r.processed)
             /\ notified' = [notified EXCEPT ![r.key] = r.sent]
             /\ Set(w, [r EXCEPT !.pc = "done", !.result = "success"])
             /\ End(w, IF r.notify_ret THEN "success" ELSE "success:notify_failed")
          \/ /\ file' \in {file, CorruptFile}
             /\ UNCHANGED notified
             /\ Set(w, ErrorResult(Failing(r, "save_processed"), "save_processed"))
             /\ End(w, "save_processed")
    /\ UNCHANGED <<nreq, published, nvars, pvars>>

\* processed[key] = {...}; save_processed(processed); return {"status": "success", ...}
\* A write that raises leaves the file as it was (open failed) or cut short
\* (opened for writing, then the dump failed); the run ends in the error result.
SaveProcessed(w) ==
    /\ run[w].pc = "save"
    /\ LET r == [Call(run[w], "save_processed") EXCEPT
                    !.processed = (run[w].key :> Outcome(run[w])) @@ @]
       IN \/ /\ file' = save_processed(r.processed)
             /\ notified' = [notified EXCEPT ![r.key] = r.sent]
             /\ Set(w, [r EXCEPT !.pc = "done", !.result = "success"])
             /\ End(w, IF r.notify_ret THEN "success" ELSE "success:notify_failed")
          \/ /\ file' \in {file, CorruptFile}
             /\ UNCHANGED notified
             /\ Set(w, ErrorResult(Failing(r, "save_processed"), "save_processed"))
             /\ End(w, "save_processed")
    /\ UNCHANGED <<nreq, published, nvars, pvars>>

Step(w) ==
    \/ \E d \in Requests : Receive(w, d)
    \/ CheckSecret(w)
    \/ LoadProcessed(w)
    \/ Replay(w)
    \/ DecodeAttachments(w)
    \/ GetPrevReadme(w)
    \/ Generate(w)
    \/ CreateRepo(w)
    \/ GetRepo(w)
    \/ CommitIndex(w)
    \/ CommitReadme(w)
    \/ CommitLicense(w)
    \/ EnablePages(w)
    \/ GetBranch(w)
    \/ Notify(w)
    \/ SaveProcessed(w)

Next == \E w \in Workers : Step(w)

Spec == Init /\ [][Next]_vars

\* A step of a request that is being handled. The handler is straight-line code
\* without awaits after the body is read: once a request is in, each call it
\* makes returns or raises and the next statement runs.
Running(w) == run[w].pc \notin {"idle", "done"} /\ Step(w)

SpecLive == Init /\ [][Next]_vars /\ \A w \in Workers : WF_vars(Running(w))

\* Two server processes that share the state file: the handler has no await
\* after the body is read, so requests overlap only across processes.
AllWorkers == {"w1", "w2"}

InitConc ==
    /\ file = ValidFile(EmptyMap)
    /\ run = [w \in AllWorkers |-> FreshRun]
    /\ nreq = 0
    /\ published = [k \in Keys |-> 0]
    /\ lastEnd = [k \in Keys |-> "none"]
    /\ notified = [k \in Keys |-> <<>>]
    /\ NotifyInit
    /\ PureInit

\* What the two-process model lets fail: the store write, and a repository
\* creation that finds the repository already there. The other external calls
\* do not touch the state file; their failures are explored one request at a
\* time under Spec.
ConcFailures == {"save_processed", "create_repo:exists"}

NextConc == \E w \in AllWorkers : Step(w) /\ run'[w].failed \subseteq ConcFailures

SpecConc == InitConc /\ [][NextConc]_vars

\* -------------------------------------- notify_evaluation_server, by step
\* Mutant of AfterPost: an exception of requests.post is not caught.
AfterPostRaises(o) ==
    IF o = "200" THEN "return_true"
    ELSE IF o = "exception" THEN "raised" ELSE "backoff"

\* Where the loop body goes after requests.post ended in `o`: a 200 response
\* returns True; any other status is printed and an exception is caught and
\* printed, and both fall through to the backoff.
AfterPost(o) == IF o = "200" THEN "return_true" ELSE "backoff"

\* r = requests.post(evaluation_url, headers=headers, json=payload, timeout=30)
Post ==
    /\ npc = "post"
    /\ \E o \in Outcomes :
        /\ outcomes' = Append(outcomes, o)
        /\ npc' = AfterPost(o)
    /\ UNCHANGED <<attempt, delay, sleeps, ret, hvars, pvars>>

\* if r.status_code == 200: return True
ReturnTrue ==
    /\ npc = "return_true"
    /\ ret' = TRUE
    /\ npc' = "returned"
    /\ UNCHANGED <<attempt, delay, sleeps, outcomes, hvars, pvars>>

\* Mutant of Backoff: the guard is off by one, so the last attempt is followed
\* by a wait too.
BackoffAfterLast ==
    /\ npc = "backoff"
    /\ IF attempt < MaxAttempts
       THEN sleeps' = Append(sleeps, delay) /\ delay' = delay * 2
       ELSE UNCHANGED <<sleeps, delay>>
    /\ attempt' = attempt + 1
    /\ npc' = IF attempt + 1 < MaxAttempts THEN "post" ELSE "return_false"
    /\ UNCHANGED <<outcomes, ret, hvars, pvars>>

\* if attempt < 4: time.sleep(delay); delay *= 2   -- then the next pass of range(5)
Backoff ==
    /\ npc = "backoff"
    /\ IF attempt < MaxAttempts - 1
       THEN sleeps' = Append(sleeps, delay) /\ delay' = delay * 2
       ELSE UNCHANGED <<sleeps, delay>>
    /\ attempt' = attempt + 1
    /\ npc' = IF attempt + 1 < MaxAttempts THEN "post" ELSE "return_false"
    /\ UNCHANGED <<outcomes, ret, hvars, pvars>>

\* return False, after the loop
ReturnFalse ==
    /\ npc = "return_false"
    /\ ret' = FALSE
    /\ npc' = "returned"
    /\ UNCHANGED <<attempt, delay, sleeps, outcomes, hvars, pvars>>

NotifyNext == Post \/ ReturnTrue \/ Backoff \/ ReturnFalse

\* One call of notify_evaluation_server on its own, every attempt's outcome free.
SpecNotify == Init /\ [][NotifyNext]_vars

\* ------------------------------------------------------ generate_app_code
\* Texts are sequences of tokens: a word, white space, the code fence (three
\* backticks, chr(96) * 3, written "<fence>" here), the word html, and the
\* separator line.
Fence == "<fence>"
Sep == "---README.md---"
Tokens == {"x", " ", Fence, "html", Sep}
Texts == UNION {[1..n -> Tokens] : n \in 0..MaxBriefLen}
Briefs == Texts
\* What the live model call ends in: an exception, or a response text.
Raised == [raised |-> TRUE, text |-> <<>>]
LiveResults == {Raised} \cup {[raised |-> FALSE, text |-> t] : t \in Texts}

\* The number of characters of a token.
TokLen(t) ==
    CASE t = Fence -> 3
      [] t = "html" -> 4
      [] t = Sep -> 15
      [] OTHER -> 1

RECURSIVE StripLeft(_)
StripLeft(s) == IF s # <<>> /\ Head(s) = " " THEN StripLeft(Tail(s)) ELSE s
RECURSIVE StripRight(_)
StripRight(s) ==
    IF s # <<>> /\ s[Len(s)] = " " THEN StripRight(SubSeq(s, 1, Len(s) - 1)) ELSE s
\* str.strip()
Strip(s) == StripRight(StripLeft(s))

HasPrefix(s, pat) == Len(s) >= Len(pat) /\ SubSeq(s, 1, Len(pat)) = pat

\* str.replace(pat, ""): one pass from the left over non-overlapping matches.
RECURSIVE Remove(_, _)
Remove(s, pat) ==
    IF Len(s) < Len(pat) THEN s
    ELSE IF HasPrefix(s, pat) THEN Remove(SubSeq(s, Len(pat) + 1, Len(s)), pat)
    ELSE <<Head(s)>> \o Remove(Tail(s), pat)

\* str.replace(pat, "", 1)
RECURSIVE RemoveFirst(_, _)
RemoveFirst(s, pat) ==
    IF Len(s) < Len(pat) THEN s
    ELSE IF HasPrefix(s, pat) THEN SubSeq(s, Len(pat) + 1, Len(s))
    ELSE <<Head(s)>> \o RemoveFirst(Tail(s), pat)

\* pat in s
Contains(s, pat) ==
    \E i \in 1..(Len(s) - Len(pat) + 1) : SubSeq(s, i, i + Len(pat) - 1) = pat

\* The characters before token i of s.
RECURSIVE Offset(_, _)
Offset(s, i) == IF i = 1 THEN 0 ELSE Offset(s, i - 1) + TokLen(s[i - 1])

\* "html" in text[:20]
HeadChars == 20
HtmlInHead(s) ==
    \E i \in 1..Len(s) : s[i] = "html" /\ Offset(s, i) + TokLen("html") <= HeadChars

\* _strip_code_block(text)
StripCodeBlock(text) ==
    Strip(Remove(Remove(Remove(Strip(text), <<Fence, "html">>),
                        <<Fence, "markdown">>), <<Fence>>))

\* generate_fallback_html(brief): the page, with the brief inside its info box.
generate_fallback_html(brief) == <<"<!DOCTYPE html>..Brief:">> \o brief \o <<"</div>..</html>">>

\* generate_readme_fallback(brief, checks, attachments_meta, round_num), without
\* checks and attachments: the brief under "## Brief", then the fixed sections,
\* which end with a newline.
generate_readme_fallback(brief) ==
    <<"# Generated Web Application..## Brief">> \o brief \o <<"## Round..Generator*", " ">>

\* text.split("---README.md---", 1)
SplitOnce(s) ==
    LET i == CHOOSE j \in 1..Len(s) : s[j] = Sep /\ \A m \in 1..(j - 1) : s[m] # Sep
    IN <<SubSeq(s, 1, i - 1), SubSeq(s, i + 1, Len(s))>>

\* The text the try block of generate_app_code leaves: the cleaned response, or
\* the fallback page, the separator line and the fallback README.
GeneratedText(brief, live) ==
    IF live.raised
    THEN generate_fallback_html(brief) \o <<Sep, " ">> \o generate_readme_fallback(brief)
    ELSE LET t == Strip(live.text)
             u == IF HtmlInHead(t) THEN RemoveFirst(t, <<Fence, "html">>) ELSE t
         IN Strip(Remove(u, <<Fence>>))

\* generate_app_code(brief, ...)["files"]
generate_app_code(brief, live) ==
    LET text == GeneratedText(brief, live)
    IN IF Contains(text, <<Sep>>)
       THEN [f \in {"index.html", "README.md"} |->
                IF f = "index.html" THEN StripCodeBlock(SplitOnce(text)[1])
                ELSE StripCodeBlock(SplitOnce(text)[2])]
       ELSE [f \in {"index.html", "README.md"} |->
                IF f = "index.html" THEN StripCodeBlock(text)
                ELSE generate_readme_fallback(brief)]

\* One call of generate_app_code, for any brief and any end of the live call.
GenerateAppCode ==
    /\ gfiles = EmptyMap
    /\ \E brief \in Briefs, live \in LiveResults :
        /\ gbrief' = brief
        /\ gfailed' = live.raised
        /\ gfiles' = generate_app_code(brief, live)
    /\ UNCHANGED <<hvars, nvars, kp>>

SpecGen == Init /\ [][GenerateAppCode]_vars

\* ------------------------------------------------- the idempotency key
\* Request fields as a client may send them: any JSON strings, "::" included.
KeyEmails == {"a", "a::b"}
KeyTasks == {"c", "b::c"}
KeyNonces == {"n1", "n2"}
KeyRounds == {1, 2}

KeyRequests ==
    {[email |-> e, task |-> t, nonce |-> n] :
        e \in KeyEmails, t \in KeyTasks, n \in KeyNonces}
    \cup
    {[email |-> e, task |-> t, nonce |-> n, round |-> r] :
        e \in KeyEmails, t \in KeyTasks, n \in KeyNonces, r \in KeyRounds}

\* The tuple the key stands for: (email, task, round, nonce), round 1 if absent.
KeyTuple(d) == <<d["email"], d["task"], Get(d, "round", 1), d["nonce"]>>

\* receive_request builds the key of each of two requests.
BuildKeys ==
    /\ kp = EmptyMap
    /\ \E a, b \in KeyRequests :
        kp' = [a |-> a, b |-> b, key_a |-> Key(a), key_b |-> Key(b)]
    /\ UNCHANGED <<hvars, nvars, gbrief, gfailed, gfiles>>

SpecKey == Init /\ [][BuildKeys]_vars

TypeOK ==
    /\ file.valid \in BOOLEAN
    /\ DOMAIN file.content \subseteq Keys
    /\ nreq \in 0..MaxRequests
    /\ \A w \in Workers : run[w].result \in
          {"none", "invalid_secret", "duplicate", "success", "error"}

\* ----------------------------------------------------------------- claims
Range(q) == {q[i] : i \in 1..Len(q)}
Count(q, x) == Cardinality({i \in 1..Len(q) : q[i] = x})
\* The calls made before the first call of x (all of them when x was not called).
Before(q, x) ==
    IF x \in Range(q)
    THEN SubSeq(q, 1, (CHOOSE i \in 1..Len(q) :
                          q[i] = x /\ \A j \in 1..(i - 1) : q[j] # x) - 1)
    ELSE q

CommitCalls ==
    {"create_or_update_file:index.html", "create_or_update_file:README.md",
     "create_or_update_file:LICENSE"}
GeneratorCalls == {"generate_app_code"}
HostCalls ==
    CommitCalls \cup {"create_repo", "get_repo", "get_contents:README.md",
                      "enable_pages", "get_branch"}

\* The run is past the secret check and the look-up of its key.
Dispatched(r) == r.pc \notin {"idle", "check_secret", "load"} /\ r.result # "invalid_secret"

\* C1: a request with a valid secret whose key is in the persisted store makes
\* no Generator and no Repository Host call, calls the notification client
\* exactly once, with the fields of the stored outcome, and returns the
\* "duplicate handled & re-notified" acknowledgment.
C1_DuplicateReplay ==
    \A w \in Workers :
        LET r == run[w]
            stored == load_processed(r.file0)
        IN (Dispatched(r) /\ Key(r.data) \in DOMAIN stored) =>
            /\ Range(r.calls) \cap (GeneratorCalls \cup HostCalls) = {}
            /\ r.pc \in {"replay", "done"}
            /\ r.pc = "done" =>
                /\ r.result = "duplicate"
                /\ r.calls = <<"load_processed", "notify_evaluation_server">>
                /\ r.sent = <<stored[Key(r.data)]>>

C1_Witness ==
    \E w \in Workers : run[w].pc = "done" /\ run[w].result = "duplicate"

\* C2: for every key, the publish action (the file commits) is performed at
\* most once, whatever sequence of requests carries the key.
C2_PublishAtMostOnce == \A k \in Keys : published[k] <= 1

\* C3: when the read of the head commit identifier fails, the task does not
\* fail: commit_sha is "unknown", the notification is attempted, the outcome is
\* persisted with commit_sha = "unknown" and the result is the success result.
C3_HeadReadFailureTolerated ==
    \A w \in Workers :
        LET r == run[w]
        IN (r.pc = "done" /\ "get_branch" \in r.failed) =>
            /\ r.result = "success"
            /\ r.commit_sha = "unknown"
            /\ "notify_evaluation_server" \in Range(r.calls)
            /\ r.key \in DOMAIN load_processed(file)
            /\ load_processed(file)[r.key].commit_sha = "unknown"

\* C4: a request whose secret is not the configured one returns the "Invalid
\* secret" result; the store is neither read nor written and no Generator,
\* Repository Host or notification call is made.
C4_InvalidSecretNoEffects ==
    \A w \in Workers :
        LET r == run[w]
        IN (r.pc \notin {"idle", "check_secret"}
                /\ Get(r.data, "secret", "None") # USER_SECRET) =>
            /\ r.pc = "done"
            /\ r.result = "invalid_secret"
            /\ r.calls = <<>>
            /\ r.sent = <<>>
            /\ file = r.file0

C4_Witness ==
    \E w \in Workers :
        /\ run[w].result = "invalid_secret"
        /\ DOMAIN load_processed(file) # {}

\* C5: when the repository can be neither created nor fetched the task ends in
\* the error result, nothing is notified and nothing is written to the store;
\* a later request with the same key is not handled as a duplicate and runs the
\* pipeline again.
C5_RepoFailureNotPersisted ==
    \A w \in Workers :
        LET r == run[w]
        IN /\ (r.pc = "done" /\ "get_repo" \in r.failed) =>
                /\ r.result = "error"
                /\ r.message = "get_repo"
                /\ "notify_evaluation_server" \notin Range(r.calls)
                /\ "save_processed" \notin Range(r.calls)
                /\ r.sent = <<>>
                /\ file = r.file0
                /\ r.key \notin DOMAIN load_processed(file)
           /\ (Dispatched(r) /\ r.pc # "done" /\ lastEnd[r.key] = "get_repo") =>
                r.pc # "replay"
           /\ r.result = "duplicate" => lastEnd[r.key] # "get_repo"

\* A request whose key's latest run ended on the repository failure has
\* generated and committed again.
C5_Witness ==
    \E w \in Workers :
        /\ run[w].pc = "save"
        /\ lastEnd[run[w].key] = "get_repo"
        /\ "generate_app_code" \in Range(run[w].calls)
        /\ run[w].did_commit

\* The run resolved its repository (created it, or fetched it after the
\* creation failed).
Resolved(r) ==
    \/ r.pc \in {"commit_index", "commit_readme", "commit_license",
                 "enable_pages", "get_branch", "notify", "save"}
    \/ /\ r.pc = "done"
       /\ "create_repo" \in Range(r.calls)
       /\ "get_repo" \notin r.failed

\* C6: in every run that resolves a repository a commit is attempted for each
\* of index.html, README.md and LICENSE whatever became of the others, and no
\* subset of failed commits keeps the run from the success result: unless the
\* head-commit read or the store write raises, the run ends in success with
\* repo_url and pages_url set and its outcome persisted.
C6_PartialCommitTolerance ==
    \A w \in Workers :
        LET r == run[w]
        IN /\ (Resolved(r)
                /\ r.pc \notin {"commit_index", "commit_readme", "commit_license"}) =>
                \A c \in CommitCalls : Count(r.calls, c) = 1
           /\ (Resolved(r) /\ r.pc = "done" /\ r.result = "error") =>
                r.failed \cap {"get_branch", "save_processed"} # {}
           /\ (Resolved(r) /\ r.pc = "done"
                /\ r.failed \cap {"get_branch", "save_processed"} = {}) =>
                /\ r.result = "success"
                /\ r.repo_url = RepoUrl(r.data["task"])
                /\ r.pages_url = PagesUrl(r.data["task"])
                /\ Key(r.data) \in DOMAIN load_processed(file)
                /\ load_processed(file)[Key(r.data)] = Outcome(r)

\* All three commits failed and the run still ended in success.
C6_Witness ==
    \E w \in Workers :
        /\ run[w].pc = "done"
        /\ run[w].result = "success"
        /\ CommitCalls \subseteq run[w].failed

\* The waits of the backoff, in seconds.
BackoffWaits == <<1, 2, 4, 8>>

\* C7: when every attempt fails, notify_evaluation_server makes exactly 5 POST
\* attempts, waits 1, 2, 4 and 8 seconds between them and not after the 5th, and
\* returns False only after the 5th attempt has failed.
C7_BackoffSequence ==
    /\ Len(outcomes) <= 5
    /\ Len(sleeps) <= Len(BackoffWaits)
    /\ sleeps = SubSeq(BackoffWaits, 1, Len(sleeps))
    /\ npc = "post" => Len(outcomes) = attempt /\ Len(sleeps) = attempt
    /\ npc = "backoff" => Len(outcomes) = attempt + 1 /\ Len(sleeps) = attempt
    /\ (npc = "return_false" \/ (npc = "returned" /\ ~ret)) =>
        /\ Len(outcomes) = 5
        /\ "200" \notin Range(outcomes)
        /\ sleeps = BackoffWaits
    /\ (npc = "returned" /\ "200" \notin Range(outcomes)) => ~ret

C7_Witness ==
    npc = "returned" /\ ~ret /\ Len(outcomes) = 5 /\ sleeps = <<1, 2, 4, 8>>

\* C8: notify_evaluation_server never raises; it returns True exactly when one
\* of its at most 5 attempts got a 200 response, makes no attempt after the
\* first 200, and returns False otherwise.
C8_NotifyNeverRaises ==
    /\ npc \in {"post", "return_true", "backoff", "return_false", "returned"}
    /\ (~ENABLED NotifyNext) => npc = "returned"
    /\ Len(outcomes) <= MaxAttempts
    /\ \A i \in 1..(Len(outcomes) - 1) : outcomes[i] # "200"
    /\ npc = "returned" =>
        /\ ret <=> "200" \in Range(outcomes)
        /\ ~ret => Len(outcomes) = MaxAttempts
        /\ ret = notify_evaluation_server(
                    [i \in 1..MaxAttempts |->
                        IF i <= Len(outcomes) THEN outcomes[i] ELSE "non200"])

\* An exception, then a non-200 response, then a 200: True after three attempts.
C8_Witness ==
    npc = "returned" /\ ret /\ outcomes = <<"exception", "non200", "200">>

\* C9: once publish has produced its triple, the outcome is persisted and the
\* success result returned whether the notification was delivered or not (a
\* failed store write apart); a later duplicate of the key re-notifies.
C9_NotificationAdvisory ==
    \A w \in Workers :
        LET r == run[w]
            triple == "get_branch" \in Range(r.calls) /\ "get_branch" \notin r.failed
        IN /\ (r.pc = "done" /\ triple) =>
                /\ Count(r.calls, "notify_evaluation_server") = 1
                /\ Count(r.calls, "save_processed") = 1
                /\ r.result = "error" => "save_processed" \in r.failed
           /\ (r.pc = "done" /\ triple /\ "save_processed" \notin r.failed) =>
                /\ r.result = "success"
                /\ Key(r.data) \in DOMAIN load_processed(file)
                /\ load_processed(file)[Key(r.data)] = Outcome(r)
           /\ (r.pc = "done" /\ r.result = "duplicate"
                /\ lastEnd[r.key] = "success:notify_failed") =>
                /\ Count(r.calls, "notify_evaluation_server") = 1
                /\ r.sent = <<load_processed(file)[r.key]>>

\* A duplicate of a key whose run could not deliver its notification.
C9_Witness ==
    \E w \in Workers :
        /\ run[w].pc = "done"
        /\ run[w].result = "duplicate"
        /\ lastEnd[run[w].key] = "success:notify_failed"

PrevReadmeFailed(r) ==
    r.failed \cap {"prev_readme:get_repo", "prev_readme:get_contents"} # {}

\* C10: a non-duplicate round-2 request makes one attempt to read the existing
\* repository's README.md (fetch the repository, then read the file), before the
\* Generator is invoked; when the attempt fails the Generator is still invoked,
\* with prev_readme = None, and the task goes on. A request of another round
\* makes no such attempt.
C10_RoundGating ==
    \A w \in Workers :
        LET r == run[w]
            round == Get(r.data, "round", 1)
            pre == Before(r.calls, "generate_app_code")
            generated == "generate_app_code" \in Range(r.calls)
        IN /\ r.pc = "prev_readme" => round = 2
           /\ (r.pc = "generate" \/ generated) =>
                IF round = 2
                THEN /\ pre \in {<<"load_processed", "decode_attachments", "get_repo">>,
                                 <<"load_processed", "decode_attachments", "get_repo",
                                   "get_contents:README.md">>}
                     /\ Count(pre, "get_contents:README.md") = 1
                            <=> "prev_readme:get_repo" \notin r.failed
                     /\ Count(r.calls, "get_contents:README.md") <= 1
                     /\ r.prev_readme = IF PrevReadmeFailed(r) THEN "None" ELSE "readme"
                     /\ generated => r.gen_prev = r.prev_readme
                ELSE /\ pre = <<"load_processed", "decode_attachments">>
                     /\ "get_contents:README.md" \notin Range(r.calls)
                     /\ ~PrevReadmeFailed(r)
                     /\ generated => r.gen_prev = "None"
           /\ (r.pc = "done" /\ PrevReadmeFailed(r)) => generated
           /\ (r.pc = "done" /\ round = 2 /\ r.result = "error") =>
                r.message \in {"decode_attachments", "generate_app_code", "get_repo",
                               "get_branch", "save_processed"}

\* A round-2 run whose README read failed and which ended in success.
C10_Witness ==
    \E w \in Workers :
        /\ run[w].pc = "done"
        /\ run[w].result = "success"
        /\ run[w].round_num = 2
        /\ PrevReadmeFailed(run[w])
        /\ run[w].gen_prev = "None"

\* C13: every request that is processed (not rejected) and every outcome in the
\* store has round 1 or 2.
C13_RoundInRange ==
    /\ \A w \in Workers :
        (Dispatched(run[w]) /\ run[w].pc \notin {"replay", "decode"}
            /\ run[w].result # "duplicate") => run[w].round_num \in {1, 2}
    /\ \A k \in DOMAIN load_processed(file) : load_processed(file)[k].round \in {1, 2}

\* The place of the first call of x in q (one past the end when x was not called).
IndexOf(q, x) ==
    IF x \in Range(q)
    THEN CHOOSE i \in 1..Len(q) : q[i] = x /\ \A j \in 1..(i - 1) : q[j] # x
    ELSE Len(q) + 1

\* The stage of the i-th call of a run: 0 store look-up, 1 attachment decode,
\* 2 prior-README fetch, 3 generate, 4 publish, 5 notify, 6 persist. get_repo is
\* called by stage 2 (before the Generator) and by stage 4 (after it).
StageOf(q, i) ==
    CASE q[i] = "get_repo" -> IF "generate_app_code" \in Range(SubSeq(q, 1, i)) THEN 4 ELSE 2
      [] q[i] = "load_processed" -> 0
      [] q[i] = "decode_attachments" -> 1
      [] q[i] = "get_contents:README.md" -> 2
      [] q[i] = "generate_app_code" -> 3
      [] q[i] = "notify_evaluation_server" -> 5
      [] q[i] = "save_processed" -> 6
      [] OTHER -> 4

\* C15: in a non-duplicate run the stages come in the order attachment decode,
\* prior-README fetch (round 2 only), generate, publish, notify, persist; the
\* notification is sent only after the publish stage has finished and the
\* outcome is persisted only after the notification call has returned.
C15_StageOrder ==
    \A w \in Workers :
        LET r == run[w]
            q == r.calls
        IN (r.pc # "replay" /\ r.result # "duplicate") =>
            /\ \A i \in 1..(Len(q) - 1) : StageOf(q, i) <= StageOf(q, i + 1)
            /\ \A x \in {"decode_attachments", "generate_app_code",
                         "notify_evaluation_server", "save_processed"} :
                    Count(q, x) <= 1
            /\ Get(r.data, "round", 1) # 2 =>
                    \A i \in 1..Len(q) : StageOf(q, i) # 2
            /\ "generate_app_code" \in Range(q) =>
                    /\ "decode_attachments" \in Range(Before(q, "generate_app_code"))
                    /\ "decode_attachments" \notin r.failed
                    /\ Get(r.data, "round", 1) = 2 =>
                            "get_repo" \in Range(Before(q, "generate_app_code"))
            /\ "create_repo" \in Range(q) =>
                    /\ "generate_app_code" \in Range(Before(q, "create_repo"))
                    /\ "generate_app_code" \notin r.failed
            /\ "notify_evaluation_server" \in Range(q) =>
                    LET pub == Before(q, "notify_evaluation_server")
                    IN /\ CommitCalls \cup {"create_repo", "enable_pages", "get_branch"}
                            \subseteq Range(pub)
                       /\ "get_branch" \notin r.failed
                       /\ r.commit_sha \in Shas
            /\ "save_processed" \in Range(q) =>
                    /\ "notify_evaluation_server" \in Range(Before(q, "save_processed"))
                    /\ Len(r.sent) = 1
                    /\ q[Len(q)] = "save_processed"

\* A round-2 run that went through every stage, the README read included.
C15_Witness ==
    \E w \in Workers :
        /\ run[w].pc = "done"
        /\ run[w].result = "success"
        /\ run[w].round_num = 2
        /\ "get_contents:README.md" \in Range(run[w].calls)

\* The place of a Repository Host call inside the publish stage.
PublishRank(x) ==
    CASE x = "create_repo" -> 1
      [] x = "get_repo" -> 2
      [] x = "create_or_update_file:index.html" -> 3
      [] x = "create_or_update_file:README.md" -> 4
      [] x = "create_or_update_file:LICENSE" -> 5
      [] x = "enable_pages" -> 6
      [] x = "get_branch" -> 7
      [] OTHER -> 0

\* The Repository Host calls of the publish stage (those made after the
\* Generator returned), in the order they were made.
PublishCalls(q) ==
    SelectSeq(SubSeq(q, IndexOf(q, "generate_app_code") + 1, Len(q)),
              LAMBDA x : PublishRank(x) > 0)

\* C16 as stated: in every run that both reads the head commit and enables
\* static-page hosting, the head commit is read first.
C16_HeadReadBeforePages ==
    \A w \in Workers :
        LET q == run[w].calls
        IN {"get_branch", "enable_pages"} \subseteq Range(q) =>
                IndexOf(q, "get_branch") < IndexOf(q, "enable_pages")

\* C16 (amended): inside the publish stage the sub-steps occur in the order
\* repository resolve, per-file commits (index.html, README.md, LICENSE), pages
\* enable, head-commit read: static-page hosting is enabled before the head
\* commit identifier is read, and the head commit is never read without it.
C16_PublishOrder ==
    \A w \in Workers :
        LET q == run[w].calls
            p == PublishCalls(q)
        IN /\ \A i \in 1..(Len(p) - 1) : PublishRank(p[i]) < PublishRank(p[i + 1])
           /\ \A x \in CommitCalls :
                x \in Range(q) => "create_repo" \in Range(Before(q, x))
           /\ "enable_pages" \in Range(q) =>
                CommitCalls \subseteq Range(Before(q, "enable_pages"))
           /\ "get_branch" \in Range(q) =>
                "enable_pages" \in Range(Before(q, "get_branch"))

\* A run that read the head commit after enabling static-page hosting.
C16_Witness ==
    \E w \in Workers :
        /\ run[w].commit_sha \in Shas
        /\ "enable_pages" \in Range(Before(run[w].calls, "get_branch"))

\* C17: the repository is fetched (get_repo after create_repo) only when the
\* creation failed because the repository already exists; when the creation
\* failed for another reason no fetch is attempted and the run ends with the
\* error result.
C17_FallbackOnlyWhenExists ==
    \A w \in Workers :
        LET r == run[w]
            q == r.calls
        IN /\ (\E i \in 1..Len(q) : q[i] = "get_repo" /\ StageOf(q, i) = 4) =>
                "create_repo:exists" \in r.failed
           /\ "create_repo:other" \in r.failed =>
                /\ r.pc \in {"done"}
                /\ r.result = "error"

\* C18: a handled request reads the persisted store at most once, as its first
\* call, and writes it at most once, as its last call; the store's content is
\* changed only by a run that returns the success result, so a duplicate replay
\* and a run that ends in the error result leave it as they found it.
C18_StoreFrame ==
    \A w \in Workers :
        LET r == run[w]
            q == r.calls
        IN /\ Count(q, "load_processed") <= 1
           /\ Count(q, "save_processed") <= 1
           /\ q # <<>> => q[1] = "load_processed"
           /\ "save_processed" \in Range(q) => q[Len(q)] = "save_processed"
           /\ (r.pc # "idle" /\ r.result # "success") => file = r.file0

\* C12: every request that has passed the secret check and is not a duplicate
\* (it has entered the try block) eventually returns the success result or the
\* error result, whichever of its external calls fail.
C12_Terminates ==
    \A w \in Workers :
        (run[w].pc = "decode") ~>
            (run[w].pc = "done" /\ run[w].result \in {"success", "error"})

\* A run that returned the error result after its last call, the store write,
\* raised, having had a commit and the notification fail on the way.
C12_Witness ==
    \E w \in Workers :
        /\ run[w].pc = "done"
        /\ run[w].result = "error"
        /\ run[w].message = "save_processed"
        /\ ~run[w].notify_ret
        /\ "create_or_update_file:LICENSE" \in run[w].failed

\* C19: the payload a duplicate replay of key K hands to the notification
\* client has the same email, task, round, nonce, repo_url, commit_sha and
\* pages_url as the payload sent by the run that stored K's outcome.
C19_ReplayFidelity ==
    \A w \in Workers :
        LET r == run[w]
        IN (r.pc = "done" /\ r.result = "duplicate") =>
            /\ Len(notified[r.key]) = 1
            /\ r.sent = notified[r.key]

\* A replay of a round-2 outcome has sent its payload.
C19_Witness ==
    \E w \in Workers :
        /\ run[w].pc = "done"
        /\ run[w].result = "duplicate"
        /\ Len(run[w].sent) = 1
        /\ run[w].sent[1].round = 2
        /\ run[w].sent[1].commit_sha \in Shas

\* The mapping a reader of the state file gets.
Stored == load_processed(file)

\* Key k is in the store before a step and gone, or mapped to another outcome,
\* after it.
Lost(k) ==
    /\ k \in DOMAIN Stored
    /\ \/ k \notin DOMAIN Stored'
       \/ Stored'[k] # Stored[k]

\* C11 as stated: under any interleaving of two concurrently handled requests,
\* an outcome stored under key K stays in the store, unchanged, from then on.
C11_StoredForever ==
    [][\A k \in Keys : ~Lost(k)]_vars

\* C11 (amended): a stored outcome is deleted or changed only by a store write
\* that fails after truncating the file, or by the successful store write of a
\* request whose snapshot of the store, loaded at the start of its dispatch,
\* does not hold that outcome (the last writer's snapshot wins for the whole
\* file); no other step of any request touches it, and a write by a request
\* whose snapshot holds the outcome keeps it.
C11_LostOnlyByStaleWrite ==
    [][\A k \in Keys : Lost(k) =>
        \E w \in AllWorkers :
            /\ run[w].pc = "save"
            /\ run'[w].pc = "done"
            /\ \/ /\ run'[w].result = "error"
                  /\ file' = CorruptFile
               \/ /\ run'[w].result = "success"
                  /\ \/ k \notin DOMAIN run[w].processed
                     \/ run[w].processed[k] # Stored[k]
                  /\ Stored' = (run[w].key :> Outcome(run[w])) @@ run[w].processed]_vars

\* Two requests with different keys were handled concurrently, both returned
\* the success result, and the store holds the outcome of only one of them.
C11_Witness ==
    /\ \A w \in AllWorkers : run[w].pc = "done" /\ run[w].result = "success"
    /\ run["w1"].key # run["w2"].key
    /\ file.valid
    /\ Cardinality(DOMAIN file.content) = 1

\* C20: two requests get the same key string if and only if they have the same
\* (email, task, round, nonce), an absent round counting as 1.
C20_KeyIdentifiesTuple ==
    kp # EmptyMap =>
        ((kp.key_a = kp.key_b) <=> (KeyTuple(kp.a) = KeyTuple(kp.b)))

\* C14: when the live model call fails, the index.html and the README.md that
\* generate_app_code returns are both non-empty and both contain the brief.
C14_FallbackGuarantee ==
    (gfiles # EmptyMap /\ gfailed) =>
        /\ gfiles["index.html"] # <<>>
        /\ gfiles["README.md"] # <<>>
        /\ Contains(gfiles["index.html"], gbrief)
        /\ Contains(gfiles["README.md"], gbrief)

====
